---- MODULE Spec2Model ----
(***************************************************************************)
(* A model of the medimind backend: the reminder scheduler                 *)
(* (scheduler/reminder_scheduler.py), the toggle route that it races with  *)
(* (prescription/routes.py), the manual trigger (app.py), the in-memory    *)
(* session store with the routes that use it (auth/sessions.py,            *)
(* auth/routes.py), signup and login (auth/routes.py, auth/hash.py), and   *)
(* the /api routes on prescriptions and schedules (prescription/routes.py, *)
(* prescription/enrichment.py).                                            *)
(*                                                                         *)
(* Time is counted in whole minutes of UTC since 00:00 UTC of day 0 for    *)
(* the scheduler and in whole seconds for the session store.               *)
(***************************************************************************)
EXTENDS Integers, Sequences, FiniteSets, TLC

\* ------------------------------------------------------------------ bounds

\* The scheduler is observed for MaxDays UTC days.
MaxDays == 2

\* The interleaved runs are observed for ConcDays UTC days.
ConcDays == 1

\* The session store is observed for MaxWeeks expiry periods and, within each,
\* for MaxExtraSeconds single seconds; create_session is called MaxSessions
\* times.
MaxWeeks == 1
MaxExtraSeconds == 1
MaxSessions == 2

\* The /api routes are observed until MaxUploads prescriptions or
\* MaxUploads + 1 schedules are stored.
MaxUploads == 1

\* ------------------------------------------------------- program constants

MinutesPerHour == 60
MinutesPerDay == 24 * MinutesPerHour

\* USER_TIMEZONE = timezone(timedelta(hours=5, minutes=30)), in minutes.
USER_TIMEZONE == 5 * MinutesPerHour + 30

\* The half width of the window of _should_send_now: diff <= 2.
WindowMinutes == 2

\* CronTrigger(hour=18, minute=30): the minute of the UTC day of the reset.
ResetMinuteUTC == 18 * MinutesPerHour + 30

\* The four periods of DEFAULT_TIMES.
Periods == {"morning", "afternoon", "evening", "night"}

\* A stored datetime that is None or missing.
NoTime == 0 - 1

\* A time string, as the list str.split(":") makes of it: each part is either
\* text that int() accepts, with its value, or text that int() rejects.
IntPart(n) == [int |-> TRUE, val |-> n]
BadPart == [int |-> FALSE, val |-> 0]
TimeStr(h, m) == <<IntPart(h), IntPart(m)>>

DEFAULT_TIMES ==
    [p \in Periods |->
        CASE p = "morning" -> TimeStr(8, 0)
          [] p = "afternoon" -> TimeStr(13, 0)
          [] p = "evening" -> TimeStr(18, 0)
          [] p = "night" -> TimeStr(21, 0)]

\* DEFAULT_TIMES.get(timing_period, "08:00")
DefaultTimeOf(p) == IF p \in Periods THEN DEFAULT_TIMES[p] ELSE TimeStr(8, 0)

\* ------------------------------------------------------------ the documents

ScheduleIds == {"s1"}
UserIds == {"u1", "u2"}

\* The timings lists a schedule is stored with: upload_prescription and
\* update_schedule keep the valid periods of the list they are given, in its
\* order and with its repetitions.
TimingsChoices ==
    { <<"morning">>, <<"morning", "night">>, <<"morning", "morning">> }

\* The custom_times a schedule document may carry for "morning": none, a time
\* whose window lies across 00:00 UTC (05:30 IST), a text with one part only
\* and a text that is no number.
MorningChoices == { <<>>, TimeStr(5, 30), <<IntPart(7)>>, <<BadPart, IntPart(0)>> }

\* and for "night": none, or a time just after 00:00 IST.
NightChoices == { <<>>, TimeStr(0, 1) }

\* custom_times as a function from the periods that have an entry.
CustomTimes(m, n) ==
    [p \in {q \in {"morning", "night"} :
                (q = "morning" /\ m # <<>>) \/ (q = "night" /\ n # <<>>)} |->
        IF p = "morning" THEN m ELSE n]

NewSchedule(timings, custom) ==
    [ user_id |-> "u1",
      timings |-> timings,
      custom_times |-> custom,
      enabled |-> TRUE,
      reminders_sent_today |-> [p \in Periods |-> NoTime],
      last_reminder_sent |-> NoTime,
      last_reminder_timing |-> "none" ]

\* A user document: whether it exists, has an email, has an fcm_token.
UserChoices ==
    { [exists |-> TRUE, email |-> TRUE, fcm_token |-> TRUE],
      [exists |-> TRUE, email |-> TRUE, fcm_token |-> FALSE],
      [exists |-> TRUE, email |-> FALSE, fcm_token |-> TRUE],
      [exists |-> FALSE, email |-> FALSE, fcm_token |-> FALSE] }

VARIABLES
    clock,         \* minutes of UTC since 00:00 UTC of day 0
    schedules,     \* the schedules collection: id -> document
    users,         \* the users collection: id -> document
    resetDone,     \* the daily reset of this UTC day has run
    ticked,        \* a tick has run in this minute
    sentToday,     \* history: reminders sent and recorded this local day
    failedToday,   \* history: an attempt failed on every channel this local day
    retried,       \* history: an attempt followed a failed one this local day
    lastAttempt,   \* history: the last delivery attempt: schedule, period, the
                   \* time of its tick, the outcome
    skippedByOld,  \* history: a tick inside the window skipped the period on a
                   \* record of an earlier local day
    sentWhileOff,  \* history: a delivery was attempted for a schedule that was
                   \* stored as disabled at that moment
    threads,       \* the runs of check_and_send_reminders that are under way
    sclock,        \* seconds of UTC since the process started
    sessions,      \* _memory_sessions: session id -> (user id, expiry)
    issued,        \* the number of session ids uuid4 has made
    created,       \* history: session id -> the user and the time of its creation
    loggedOut,     \* history: the ids named by the logout requests that returned
    lastReq,       \* history: the last request and its response, until time
                   \* passes
    accounts,      \* the users collection as the auth routes see it:
                   \* user id -> (email, password hash, last_login)
    lastAuth,      \* history: the last signup or login request, its response
                   \* and what it created
    prescriptions, \* the prescriptions collection: id -> the owner's user id
    chosen,        \* history: user id -> the password given at signup
    groq_client,   \* enrichment.groq_client is set (GROQ_API_KEY is configured)
    lastApi        \* history: the last /api request and its response

history == <<sentToday, failedToday, retried, lastAttempt, skippedByOld, sentWhileOff>>

schedVars == <<clock, schedules, users, resetDone, ticked, history, threads>>
sessVars == <<sclock, sessions, issued, created, loggedOut, lastReq>>

apiVars == <<accounts, lastAuth, chosen, prescriptions, groq_client, lastApi>>

vars == <<schedVars, sessVars, apiVars>>

\* -------------------------------------------------------------------- time

Horizon == MaxDays * MinutesPerDay

\* now_utc.astimezone(USER_TIMEZONE), in minutes
LocalTime(t) == t + USER_TIMEZONE
LocalDay(t) == LocalTime(t) \div MinutesPerDay
\* now_local.hour * 60 + now_local.minute
LocalMinuteOfDay(t) == LocalTime(t) % MinutesPerDay

\* now_utc.replace(hour=0, minute=0, second=0, microsecond=0, tzinfo=None)
TodayStartUtc(t) == t - (t % MinutesPerDay)

Abs(x) == IF x < 0 THEN 0 - x ELSE x

\* ------------------------------------------------- _get_scheduled_time etc.

\* custom_times.get(timing_period, DEFAULT_TIMES.get(timing_period, "08:00"))
GetScheduledTime(doc, p) ==
    IF p \in DOMAIN doc.custom_times THEN doc.custom_times[p] ELSE DefaultTimeOf(p)

\* The try/except of _should_send_now: int(parts[0]), int(parts[1]), and the
\* default's hour and minute when either raises ValueError or IndexError.
ParsedTime(str, p) ==
    IF Len(str) >= 2 /\ str[1].int /\ str[2].int
    THEN <<str[1].val, str[2].val>>
    ELSE <<DefaultTimeOf(p)[1].val, DefaultTimeOf(p)[2].val>>

\* sched_total = sched_hour * 60 + sched_minute
SchedTotal(doc, p) ==
    LET hm == ParsedTime(GetScheduledTime(doc, p), p)
    IN hm[1] * MinutesPerHour + hm[2]

\* The same test on the UTC time of the tick.
ShouldSendNowUtc(doc, p, now) ==
    Abs((now % MinutesPerDay) - SchedTotal(doc, p)) <= WindowMinutes

\* The same test with a window one minute wider.
ShouldSendNowWide(doc, p, now) ==
    Abs(LocalMinuteOfDay(now) - SchedTotal(doc, p)) <= WindowMinutes + 1

\* _should_send_now: diff = abs(current_total - sched_total); diff <= 2
ShouldSendNow(doc, p, now) ==
    Abs(LocalMinuteOfDay(now) - SchedTotal(doc, p)) <= WindowMinutes

\* Lines 113-125: the per-period record of reminders_sent_today is of today.
SentTodayInMap(doc, p, now) ==
    /\ doc.reminders_sent_today[p] # NoTime
    /\ doc.reminders_sent_today[p] >= TodayStartUtc(now)

\* Lines 128-132: the legacy single-field record is of this period and of today.
SentTodayLegacy(doc, p, now) ==
    /\ doc.last_reminder_sent # NoTime
    /\ doc.last_reminder_timing = p
    /\ doc.last_reminder_sent >= TodayStartUtc(now)

AlreadySent(doc, p, now) == SentTodayInMap(doc, p, now) \/ SentTodayLegacy(doc, p, now)

\* -------------------------------------------------- check_and_send_reminders

\* What one run of the loop body reads and writes: the live collection and the
\* history kept for the properties.
World ==
    [ sch |-> schedules, sent |-> sentToday, failed |-> failedToday,
      retried |-> retried, last |-> lastAttempt, old |-> skippedByOld,
      off |-> sentWhileOff ]

\* The outcomes of the two delivery calls: <<email_success, push result>>.
Outcomes == BOOLEAN \X BOOLEAN

\* The check of lines 113-132 skips the period, and every record it skips on
\* was written on an earlier local day than the tick's.
SkippedOnOldRecord(doc, p, now) ==
    /\ AlreadySent(doc, p, now)
    /\ SentTodayInMap(doc, p, now) =>
          LocalDay(doc.reminders_sent_today[p]) < LocalDay(now)
    /\ SentTodayLegacy(doc, p, now) =>
          LocalDay(doc.last_reminder_sent) < LocalDay(now)

\* Lines 174-183: update_one with $set on the stored document.
MarkSent(sch, s, p, wnow) ==
    IF s \in DOMAIN sch
    THEN [sch EXCEPT ![s].reminders_sent_today[p] = wnow,
                     ![s].last_reminder_sent = wnow,
                     ![s].last_reminder_timing = p]
    ELSE sch

\* Lines 173-188 with no test of the outcome: always mark.
RecordOutcomeAlways(w, s, p, now, wnow, ok) ==
    [w EXCEPT !.sch = MarkSent(w.sch, s, p, wnow),
              !.sent[s][p] = IF ok THEN @ + 1 ELSE @,
              !.failed[s][p] = @ \/ ~ok,
              !.retried[s][p] = @ \/ w.failed[s][p],
              !.last = [s |-> s, p |-> p, at |-> now, ok |-> ok],
              !.off[s] = @ \/ (s \in DOMAIN w.sch /\ ~w.sch[s].enabled)]

\* Lines 173-188 with no write at all.
RecordOutcomeNever(w, s, p, now, wnow, ok) ==
    [w EXCEPT !.sent[s][p] = IF ok THEN @ + 1 ELSE @,
              !.failed[s][p] = @ \/ ~ok,
              !.retried[s][p] = @ \/ w.failed[s][p],
              !.last = [s |-> s, p |-> p, at |-> now, ok |-> ok],
              !.off[s] = @ \/ (s \in DOMAIN w.sch /\ ~w.sch[s].enabled)]

\* Lines 173-188: mark the period as sent when a channel succeeded, and leave
\* the document alone when both failed.
RecordOutcome(w, s, p, now, wnow, ok) ==
    [w EXCEPT !.sch = IF ok THEN MarkSent(w.sch, s, p, wnow) ELSE @,
              !.sent[s][p] = IF ok THEN @ + 1 ELSE @,
              !.failed[s][p] = @ \/ ~ok,
              !.retried[s][p] = @ \/ w.failed[s][p],
              !.last = [s |-> s, p |-> p, at |-> now, ok |-> ok],
              !.off[s] = @ \/ (s \in DOMAIN w.sch /\ ~w.sch[s].enabled)]

\* Lines 105-194, the body of the loop for one timing period of one schedule of
\* the list fetched at line 96. doc is the fetched copy, now the time read at
\* line 85, wnow the time read at line 175, out the delivery outcomes.
ProcessPair(w, doc, s, p, now, wnow, out) ==
    IF ~ShouldSendNow(doc, p, now) THEN w
    ELSE IF AlreadySent(doc, p, now)
    THEN [w EXCEPT !.old[s][p] = @ \/ SkippedOnOldRecord(doc, p, now)]
    ELSE IF ~users[doc.user_id].exists \/ ~users[doc.user_id].email THEN w
    ELSE LET email_success == out[1]
             push_success == users[doc.user_id].fcm_token /\ out[2]
         IN RecordOutcome(w, s, p, now, wnow, email_success \/ push_success)

\* The order in which find() returns the documents.
ScheduleOrder == <<"s1">>

\* The (schedule, period, fetched document) triples of one schedule, in the
\* order of its timings list (lines 101-105).
PairsOf(s, doc) == [i \in 1..Len(doc.timings) |-> <<s, doc.timings[i], doc>>]

RECURSIVE WorkFrom(_, _)
\* Line 96: list(sync_schedules.find({"enabled": True})), flattened over the
\* periods of each document.
WorkFrom(sch, order) ==
    IF order = <<>> THEN <<>>
    ELSE (IF Head(order) \in DOMAIN sch /\ sch[Head(order)].enabled
          THEN PairsOf(Head(order), sch[Head(order)]) ELSE <<>>)
         \o WorkFrom(sch, Tail(order))

WorkList(sch) == WorkFrom(sch, ScheduleOrder)

RECURSIVE RunTick(_, _, _, _)
\* Lines 100-194: the two loops, over the list fetched at the start.
RunTick(w, work, now, outs) ==
    IF work = <<>> THEN w
    ELSE RunTick(ProcessPair(w, Head(work)[3], Head(work)[1], Head(work)[2],
                             now, now, Head(outs)),
                 Tail(work), now, Tail(outs))

\* One whole run of check_and_send_reminders at the current minute.
Tick ==
    LET work == WorkList(schedules)
    IN \E outs \in [1..Len(work) -> Outcomes] :
         LET w == RunTick(World, work, clock, outs)
         IN /\ schedules' = w.sch
            /\ sentToday' = w.sent
            /\ failedToday' = w.failed
            /\ retried' = w.retried
            /\ lastAttempt' = w.last
            /\ skippedByOld' = w.old
            /\ sentWhileOff' = w.off
            /\ ticked' = TRUE
            /\ UNCHANGED <<clock, users, resetDone, threads, sessVars, apiVars>>

\* _reset_daily_tracking: update_many sets reminders_sent_today to {}.
ResetDailyTracking(sch) ==
    [s \in DOMAIN sch |->
        [sch[s] EXCEPT !.reminders_sent_today = [p \in Periods |-> NoTime]]]

\* The daily_reset job, at 18:30 UTC.
Reset ==
    /\ clock % MinutesPerDay = ResetMinuteUTC
    /\ ~resetDone
    /\ schedules' = ResetDailyTracking(schedules)
    /\ resetDone' = TRUE
    /\ UNCHANGED <<clock, users, ticked, history, threads, sessVars, apiVars>>

\* toggle_schedule: update_one sets enabled.
Toggle(s, b) ==
    /\ s \in DOMAIN schedules
    /\ schedules[s].enabled # b
    /\ schedules' = [schedules EXCEPT ![s].enabled = b]
    /\ UNCHANGED <<clock, users, resetDone, ticked, history, threads, sessVars, apiVars>>

\* ------------------------------------------------------- auth/sessions.py

\* SESSION_EXPIRE_SECONDS = 60 * 60 * 24 * 7
SESSION_EXPIRE_SECONDS == 60 * 60 * 24 * 7

\* A request's cookie or bearer token that is missing or empty, and one that is
\* no id uuid4 ever makes. The ids uuid4 makes are 1, 2, ...
NoSessionId == 0
ForgedSessionId == 0 - 1

\* get_user_from_session's None.
NoUser == "none"

\* No request yet. Of a request the history keeps whether it carried a session
\* id at all and the id the route took from it; of the response, the status,
\* the detail and the user id yielded.
NoRequest ==
    [ op |-> "none", carries |-> FALSE, sid |-> NoSessionId,
      status |-> 0, detail |-> "none", user |-> NoUser ]

\* The request has a session cookie or a bearer token that is not empty.
CarriesSessionId(req) ==
    req.cookie # NoSessionId \/ (req.scheme = "Bearer" /\ req.token # NoSessionId)

\* The same sweep with exp <= now.
CleanupExpiredEarly(store, now) ==
    [sid \in {x \in DOMAIN store : ~(store[x].expiry <= now)} |-> store[sid]]

\* No sweep at all.
CleanupExpiredNone(store, now) == store

\* _cleanup_expired_sessions: delete the sessions with exp < now.
CleanupExpired(store, now) ==
    [sid \in {x \in DOMAIN store : ~(store[x].expiry < now)} |-> store[sid]]

\* create_session: sweep, then store (user_id, now + SESSION_EXPIRE_SECONDS)
\* under the new id.
CreateSession(store, sid, user_id, now) ==
    LET swept == CleanupExpired(store, now)
    IN [x \in DOMAIN swept \cup {sid} |->
          IF x = sid
          THEN [user_id |-> user_id, expiry |-> now + SESSION_EXPIRE_SECONDS]
          ELSE swept[x]]

\* The same lookup with neither the sweep nor the test of the expiry.
GetUserNoExpiry(store, sid, now) ==
    IF sid \in DOMAIN store
    THEN [store |-> store, user |-> store[sid].user_id]
    ELSE [store |-> store, user |-> NoUser]

\* get_user_from_session: sweep, look the id up, test its expiry; the store
\* after the call and the user id returned.
GetUserFromSession(store, sid, now) ==
    LET swept == CleanupExpired(store, now)
    IN IF sid \notin DOMAIN swept
       THEN [store |-> swept, user |-> NoUser]
       ELSE IF swept[sid].expiry < now
       THEN [store |-> [x \in DOMAIN swept \ {sid} |-> swept[x]], user |-> NoUser]
       ELSE [store |-> swept, user |-> swept[sid].user_id]

\* The same with the test inverted: delete what is not there.
DeleteSessionNot(store, sid) ==
    IF sid \notin DOMAIN store
    THEN [x \in DOMAIN store \ {sid} |-> store[x]]
    ELSE store

\* delete_session
DeleteSession(store, sid) ==
    IF sid \in DOMAIN store
    THEN [x \in DOMAIN store \ {sid} |-> store[x]]
    ELSE store

\* ---------------------------------------------------------- auth/routes.py

\* get_session_id_from_request: the cookie when it is set and not empty, else
\* the token of an "Authorization: Bearer ..." header, else None.
GetSessionIdFromRequest(req) ==
    IF req.cookie # NoSessionId THEN req.cookie
    ELSE IF req.scheme = "Bearer" THEN req.token
    ELSE NoSessionId

\* require_user: the response (the status, the detail of the HTTPException,
\* the user id it yields) and the store after it.
RequireUser(store, req, now) ==
    LET session_id == GetSessionIdFromRequest(req)
        got == GetUserFromSession(store, session_id, now)
    IN IF session_id = NoSessionId
       THEN [store |-> store, status |-> 401, detail |-> "Not logged in", user |-> NoUser]
       ELSE IF got.user = NoUser
       THEN [store |-> got.store, status |-> 401, detail |-> "Session expired",
             user |-> NoUser]
       ELSE [store |-> got.store, status |-> 200, detail |-> "none", user |-> got.user]

\* The session ids a request may carry: none, a forged one, one uuid4 has made.
CarriedIds == {NoSessionId, ForgedSessionId} \cup (1..issued)

\* The requests: with a cookie only, with a Bearer header only, with a header
\* of another scheme only, and with a cookie and a Bearer header that name two
\* sessions.
Requests ==
    { [cookie |-> c, scheme |-> "none", token |-> NoSessionId] : c \in CarriedIds }
    \cup { [cookie |-> NoSessionId, scheme |-> "Bearer", token |-> t] : t \in CarriedIds }
    \cup { [cookie |-> NoSessionId, scheme |-> "Basic", token |-> issued] }
    \cup { [cookie |-> ct[1], scheme |-> "Bearer", token |-> ct[2]] :
             ct \in {x \in (1..issued) \X (1..issued) : x[1] # x[2]} }

\* A call of create_session(user_id), from signup (line 76) or login (line 120).
CreateSessionCall(u) ==
    /\ issued < MaxSessions
    /\ issued' = issued + 1
    /\ sessions' = CreateSession(sessions, issued + 1, u, sclock)
    /\ created' = [x \in DOMAIN created \cup {issued + 1} |->
                      IF x = issued + 1 THEN [user_id |-> u, at |-> sclock]
                      ELSE created[x]]
    /\ UNCHANGED <<sclock, loggedOut, lastReq, schedVars, apiVars>>

\* A request to a protected route: Depends(require_user).
ProtectedRequest(req) ==
    LET r == RequireUser(sessions, req, sclock)
    IN /\ sessions' = r.store
       /\ lastReq' = [ op |-> "require_user", carries |-> CarriesSessionId(req),
                       sid |-> GetSessionIdFromRequest(req),
                       status |-> r.status, detail |-> r.detail, user |-> r.user ]
       /\ UNCHANGED <<sclock, issued, created, loggedOut, schedVars, apiVars>>

\* POST /auth/logout
Logout(req) ==
    LET session_id == GetSessionIdFromRequest(req)
    IN /\ sessions' = IF session_id # NoSessionId
                      THEN DeleteSession(sessions, session_id) ELSE sessions
       /\ loggedOut' = IF session_id # NoSessionId
                       THEN loggedOut \cup {session_id} ELSE loggedOut
       /\ lastReq' = [ op |-> "logout", carries |-> CarriesSessionId(req),
                       sid |-> session_id,
                       status |-> 200, detail |-> "Logged out", user |-> NoUser ]
       /\ UNCHANGED <<sclock, issued, created, schedVars, apiVars>>

\* A second passes.
PassSecond ==
    /\ sclock % SESSION_EXPIRE_SECONDS < MaxExtraSeconds
    /\ sclock' = sclock + 1
    /\ lastReq' = NoRequest
    /\ UNCHANGED <<sessions, issued, created, loggedOut, schedVars, apiVars>>

\* The time of one expiry period passes.
PassWeek ==
    /\ sclock \div SESSION_EXPIRE_SECONDS < MaxWeeks
    /\ sclock' = sclock + SESSION_EXPIRE_SECONDS
    /\ lastReq' = NoRequest
    /\ UNCHANGED <<sessions, issued, created, loggedOut, schedVars, apiVars>>

\* ---------------------------------------------------------------- the clock

\* A minute in which a tick or the reset job can do something: some period of
\* some schedule is inside its window, or the reset is due. In every other
\* minute a tick returns at line 109 for every period and changes nothing.
Eventful(t) ==
    \/ t % MinutesPerDay = ResetMinuteUTC
    \/ \E s \in DOMAIN schedules : \E i \in 1..Len(schedules[s].timings) :
         ShouldSendNow(schedules[s], schedules[s].timings[i], t)

\* The minutes of a UTC day that can be eventful: the reset's, and those around
\* each scheduled time, one minute more than the window on either side.
CandidateMinutes ==
    {ResetMinuteUTC} \cup
    UNION { { (SchedTotal(schedules[s], schedules[s].timings[i]) + k - USER_TIMEZONE)
                  % MinutesPerDay :
                i \in 1..Len(schedules[s].timings),
                k \in (0 - WindowMinutes - 1)..(WindowMinutes + 1) } :
            s \in DOMAIN schedules }

\* The next eventful minute after t, among those, and the horizon when there
\* is none.
NextEventful(t) ==
    LET later == {d * MinutesPerDay + m : d \in 0..MaxDays, m \in CandidateMinutes}
        cand == {u \in later : u > t /\ u < Horizon /\ Eventful(u)}
    IN IF cand = {} THEN Horizon
       ELSE CHOOSE u \in cand : \A v \in cand : u <= v

NoAttempt == [s |-> "none", p |-> "none", at |-> NoTime, ok |-> FALSE]
\* The threads that run check_and_send_reminders: the pool thread of the
\* reminder_check job (one run at a time) and the thread of a manual trigger.
Threads == {"job", "manual"}
IdleThread == [pc |-> "idle", now |-> NoTime, work |-> <<>>]

ZeroCounts == [s \in ScheduleIds |-> [p \in Periods |-> 0]]
NoFlags == [s \in ScheduleIds |-> [p \in Periods |-> FALSE]]

\* Time passes to the next eventful minute, once the jobs of this minute have
\* run (IntervalTrigger(minutes=1) for the tick, the cron trigger for the
\* reset); the ticks of the minutes in between change nothing. The per-day history starts again with a new local day.
Advance ==
    /\ clock < Horizon
    /\ ticked
    /\ (clock % MinutesPerDay = ResetMinuteUTC) => resetDone
    /\ clock' = NextEventful(clock)
    /\ resetDone' = FALSE
    /\ ticked' = FALSE
    /\ IF LocalDay(clock') # LocalDay(clock)
       THEN /\ sentToday' = ZeroCounts
            /\ failedToday' = NoFlags
            /\ retried' = NoFlags
       ELSE UNCHANGED <<sentToday, failedToday, retried>>
    /\ UNCHANGED <<schedules, users, lastAttempt, skippedByOld, sentWhileOff, threads,
                   sessVars, apiVars>>

\* ------------------------------------------------------------ auth/hash.py

\* password.encode('utf-8')[:72]
PasswordLimit == 72

\* The first PasswordLimit bytes of a password (lines 6 and 14).
Truncate(password) ==
    SubSeq(password, 1, IF Len(password) < PasswordLimit THEN Len(password)
                        ELSE PasswordLimit)

\* hash_password: the bcrypt hash of the truncated bytes. Of the hash the model
\* keeps what checkpw can tell from it: the bytes that were hashed.
HashPassword(password) == [bcrypt |-> Truncate(password)]

\* verify_password: checkpw of the truncated bytes against the stored hash.
VerifyPassword(password, hashed) == [bcrypt |-> Truncate(password)] = hashed

\* ------------------------------------------- auth/routes.py: signup, login

\* The emails and the passwords of the requests: two short passwords, and two
\* long ones that differ in the byte after the first PasswordLimit bytes.
Emails == {"a@x.org", "b@x.org"}
LongPrefix == [i \in 1..PasswordLimit |-> "a"]
Passwords == { <<"p">>, <<"q">>, LongPrefix \o <<"x">>, LongPrefix \o <<"y">> }

\* No signup or login yet. Of a request the history keeps the email, whether a
\* user with that email existed, and whether the email was unknown or the
\* password was not the one given at signup; of the response, the status and
\* the error or message.
NoAuth ==
    [ op |-> "none", email |-> "none", existed |-> FALSE, wrong |-> FALSE,
      status |-> 0, detail |-> "none" ]

\* sync_users.find_one({"email": email}): the ids of the matching documents,
\* and the one returned (the first inserted).
UsersWithEmail(acc, email) == {id \in DOMAIN acc : acc[id].email = email}
FindOneByEmail(acc, email) ==
    IF "u1" \in UsersWithEmail(acc, email) THEN "u1" ELSE "u2"

\* The _id that insert_one gives the new document.
InsertedId(acc) == IF "u1" \in DOMAIN acc THEN "u2" ELSE "u1"

\* One more document in a collection or dictionary.
With(f, k, v) == [x \in DOMAIN f \cup {k} |-> IF x = k THEN v ELSE f[x]]

\* Lines 57-59 left out: the signup never finds an existing user.
SignupExistingNever(acc, email) == FALSE

\* Lines 57-58: existing = sync_users.find_one({"email": user.email}).
SignupExisting(acc, email) == UsersWithEmail(acc, email) # {}

\* POST /auth/signup. The handler is a coroutine whose calls to the database
\* block and whose only await, create_session, never suspends: it runs from
\* its first line to its return with no other handler in between.
Signup(email, password) ==
    IF SignupExisting(accounts, email)
    THEN /\ lastAuth' = [ op |-> "signup", email |-> email, existed |-> TRUE,
                          wrong |-> FALSE, status |-> 400,
                          detail |-> "User already exists" ]
         /\ UNCHANGED <<accounts, chosen, sessVars>>
         /\ UNCHANGED <<prescriptions, groq_client, lastApi, schedVars>>
    ELSE LET user_id == InsertedId(accounts)
         IN /\ issued < MaxSessions
            /\ user_id \notin DOMAIN accounts
            /\ accounts' = With(accounts, user_id,
                                [ email |-> email,
                                  password |-> HashPassword(password),
                                  last_login |-> sclock ])
            /\ chosen' = With(chosen, user_id, password)
            /\ issued' = issued + 1
            /\ sessions' = CreateSession(sessions, issued + 1, user_id, sclock)
            /\ created' = With(created, issued + 1,
                               [user_id |-> user_id, at |-> sclock])
            /\ lastAuth' = [ op |-> "signup", email |-> email,
                             existed |-> UsersWithEmail(accounts, email) # {},
                             wrong |-> FALSE, status |-> 200,
                             detail |-> "Signup successful" ]
            /\ UNCHANGED <<sclock, loggedOut, lastReq>>
            /\ UNCHANGED <<prescriptions, groq_client, lastApi, schedVars>>

\* POST /auth/login
Login(email, password) ==
    LET found == UsersWithEmail(accounts, email) # {}
        user == FindOneByEmail(accounts, email)
        wrong == ~found \/ chosen[user] # password
    IN IF ~found \/ ~VerifyPassword(password, accounts[user].password)
       THEN /\ lastAuth' = [ op |-> "login", email |-> email, existed |-> found,
                             wrong |-> wrong, status |-> 401,
                             detail |-> "Invalid credentials" ]
            /\ UNCHANGED <<accounts, chosen, sessVars>>
            /\ UNCHANGED <<prescriptions, groq_client, lastApi, schedVars>>
       ELSE /\ issued < MaxSessions
            /\ accounts' = [accounts EXCEPT ![user].last_login = sclock]
            /\ issued' = issued + 1
            /\ sessions' = CreateSession(sessions, issued + 1, user, sclock)
            /\ created' = With(created, issued + 1,
                               [user_id |-> user, at |-> sclock])
            /\ lastAuth' = [ op |-> "login", email |-> email, existed |-> found,
                             wrong |-> wrong, status |-> 200,
                             detail |-> "Login successful" ]
            /\ UNCHANGED <<sclock, loggedOut, lastReq, chosen>>
            /\ UNCHANGED <<prescriptions, groq_client, lastApi, schedVars>>

\* ------------------------------------------- prescription/routes.py: /api

\* A field of a request body or of the LLM's JSON that is absent (None), and
\* one that is given.
Absent == <<>>
Given(v) == <<v>>

\* valid_timings (lines 270 and 444)
VALID_TIMINGS == {"morning", "afternoon", "evening", "night"}

\* The filter without its test: every entry is kept.
CleanTimingsNot(timings) == timings

\* [t for t in timings if t in valid_timings] (lines 285 and 445)
CleanTimings(timings) == SelectSeq(timings, LAMBDA t : t \in VALID_TIMINGS)

\* str.strip() on the strings of the requests.
Strip(str) ==
    CASE str = " Ibuprofen " -> "Ibuprofen"
      [] str = "5ml " -> "5ml"
      [] OTHER -> str

\* ------------------------------------------------ prescription/enrichment.py

\* A value of the LLM's JSON where a list is expected: a list, or something
\* else (a string).
JsonList(items) == [is_list |-> TRUE, items |-> items]
JsonString == [is_list |-> FALSE, items |-> <<>>]

\* The medicines the LLM may extract from the OCR text.
Medicine(name, dosage, timings) ==
    [ medicine_name |-> name, dosage |-> dosage, frequency |-> "twice a day",
      timings |-> timings, enriched |-> FALSE ]

MedicineLists ==
    { <<>>,
      << Medicine("N/A", "10mg", JsonList(<<"night">>)) >>,
      << Medicine("Paracetamol", "500mg", JsonList(<<"noon">>)) >>,
      << Medicine("Cetirizine", "10mg", JsonList(<<"noon", "evening", "evening">>)),
         Medicine("Unknown", "10mg", JsonList(<<"night">>)),
         Medicine("Ibuprofen", "Unknown", JsonString) >> }

\* The LLM's answers to an enrichment prompt; the call may also fail.
EnrichmentAnswers ==
    { [ failed |-> TRUE, dosage |-> "Unable to determine",
        frequency |-> "Unable to determine", timings |-> <<>> ],
      [ failed |-> FALSE, dosage |-> "Unable to determine",
        frequency |-> "Unable to determine", timings |-> <<>> ],
      [ failed |-> FALSE, dosage |-> "5ml",
        frequency |-> "once a day", timings |-> <<"noon", "night">> ] }

\* parse_prescription_with_groq: [] when the client is not configured (lines
\* 73-74), else the medicines of the LLM's reply ([] when the call fails).
ParsePrescriptionWithGroq(groq, reply) == IF ~groq THEN <<>> ELSE reply

\* detect_missing_information
DetectMissingInformation(medicine) ==
    (IF medicine.dosage \in {"As prescribed", "N/A", "Unknown", "unknown", ""}
     THEN {"dosage"} ELSE {})
    \cup (IF medicine.frequency \in {"As prescribed", "N/A", "Unknown", "unknown", ""}
          THEN {"frequency"} ELSE {})
    \cup (IF ~medicine.timings.is_list \/ medicine.timings.items = <<>>
          THEN {"timings"} ELSE {})

\* enrich_medicine_with_llm: the medicine with the fields the answer fills.
EnrichMedicineWithLlm(medicine, missing, answer) ==
    IF answer.failed THEN medicine
    ELSE LET dosage_filled == "dosage" \in missing
                                /\ answer.dosage # "Unable to determine"
             frequency_filled == "frequency" \in missing
                                   /\ answer.frequency # "Unable to determine"
             llm_timings == CleanTimings(answer.timings)
             timings_filled == "timings" \in missing /\ llm_timings # <<>>
         IN [medicine EXCEPT
               !.dosage = IF dosage_filled THEN answer.dosage ELSE @,
               !.frequency = IF frequency_filled THEN answer.frequency ELSE @,
               !.timings = IF timings_filled THEN JsonList(llm_timings) ELSE @,
               !.enriched = dosage_filled \/ frequency_filled \/ timings_filled]

\* The loop of enrich_medicines over the medicines (lines 370-402).
EnrichEach(medicines, answer) ==
    [i \in 1..Len(medicines) |->
        IF DetectMissingInformation(medicines[i]) = {} THEN medicines[i]
        ELSE EnrichMedicineWithLlm(medicines[i],
                                   DetectMissingInformation(medicines[i]), answer)]

\* The keys of enrichment_stats when the client is not configured (line 359).
DisabledStatsKeys == {"enabled", "enriched_count"}

\* The keys of enrichment_stats when it is (lines 362-368).
EnabledStatsKeys ==
    {"enabled", "enriched_count", "skipped_count", "failed_count",
     "enriched_medicines"}

\* enrich_medicines: the medicines and the keys of the stats it returns.
EnrichMedicines(groq, medicines, answer) ==
    IF ~groq
    THEN [medicines |-> medicines, stats |-> DisabledStatsKeys]
    ELSE [medicines |-> EnrichEach(medicines, answer), stats |-> EnabledStatsKeys]

\* The body of an update request (ScheduleUpdate).
UpdateBody(name, dosage, frequency, timings) ==
    [medicine_name |-> name, dosage |-> dosage, frequency |-> frequency,
     timings |-> timings]

\* A response of an /api route, with what the history keeps of the request:
\* the session id it carried, the user whose documents it read or changed, the
\* body of an update, and the prescription an upload stored.
ApiResponse(op, sid, owner, status, detail) ==
    [ op |-> op, sid |-> sid, owner |-> owner, status |-> status,
      detail |-> detail, body |-> UpdateBody(Absent, Absent, Absent, Absent),
      prescription_id |-> 0 ]

\* No /api request yet.
NoApi == ApiResponse("none", NoSessionId, NoUser, 0, "none")

\* Lines 278-279: the medicine is skipped.
SkippedMedicine(medicine) ==
    medicine.medicine_name \in {"", "N/A", "Unknown", "Unknown Medicine"}

\* Lines 281-287: the timings of the schedule made for a medicine.
UploadTimings(timings) ==
    IF ~timings.is_list \/ timings.items = <<>> THEN <<"morning">>
    ELSE IF CleanTimings(timings.items) = <<>> THEN <<"morning">>
    ELSE CleanTimings(timings.items)

\* Lines 289-299: schedule_doc.
ScheduleDoc(user_id, medicine) ==
    [NewSchedule(UploadTimings(medicine.timings), <<>>) EXCEPT !.user_id = user_id]
    @@ [ medicine_name |-> medicine.medicine_name, dosage |-> medicine.dosage,
         frequency |-> medicine.frequency, updated_at |-> NoTime ]

\* Lines 272-301: the schedules inserted for the medicines of prescription pid,
\* each under a new id.
NewSchedules(pid, user_id, medicines) ==
    [id \in {<<pid, i>> : i \in {j \in 1..Len(medicines) :
                                   ~SkippedMedicine(medicines[j])}} |->
        ScheduleDoc(user_id, medicines[id[2]])]

\* The documents of two collections together.
Both(f, g) == [x \in DOMAIN f \cup DOMAIN g |-> IF x \in DOMAIN f THEN f[x] ELSE g[x]]

\* POST /api/upload-prescription with form field user_id, by a request that
\* carries session id sid. ocr_ok: OCR.space returned text; reply and answer:
\* what the LLM returns when it is asked.
UploadPrescription(sid, user_id, ocr_ok, reply, answer) ==
    LET parsed == ParsePrescriptionWithGroq(groq_client, reply)
        enriched == EnrichMedicines(groq_client, parsed, answer)
        medicines == enriched.medicines
        pid == Len(prescriptions) + 1
        made == NewSchedules(pid, user_id, medicines)
        fail(status, detail) ==
            /\ lastApi' = ApiResponse("upload_prescription", sid, user_id,
                                      status, detail)
            /\ UNCHANGED <<schedules, prescriptions>>
    IN /\ IF user_id \notin DOMAIN users \/ ~users[user_id].exists
          THEN fail(404, "User not found")
          ELSE IF ~ocr_ok THEN fail(500, "OCR failed")
          ELSE IF "skipped_count" \notin enriched.stats
          THEN fail(500, "'skipped_count'")
          ELSE /\ Len(prescriptions) < MaxUploads
               /\ Cardinality(DOMAIN schedules \cup DOMAIN made) <= MaxUploads + 1
               /\ prescriptions' = Append(prescriptions, user_id)
               /\ schedules' = Both(schedules, made)
               /\ lastApi' =
                    [ApiResponse("upload_prescription", sid, user_id,
                                 IF medicines = <<>> \/ DOMAIN made = {}
                                 THEN 400 ELSE 200,
                                 IF medicines = <<>> \/ DOMAIN made = {}
                                 THEN "No medicines detected"
                                 ELSE "Prescription uploaded successfully")
                       EXCEPT !.prescription_id = pid]
       /\ UNCHANGED <<clock, users, resetDone, ticked, history, threads>>
       /\ UNCHANGED <<sessVars, accounts, lastAuth, chosen, groq_client>>

\* The user a schedule belongs to.
OwnerOf(sch, id) == IF id \in DOMAIN sch THEN sch[id].user_id ELSE NoUser

\* What the /api routes on schedules leave alone.
ScheduleRouteFrame ==
    /\ UNCHANGED <<clock, users, resetDone, ticked, history, threads>>
    /\ UNCHANGED <<sessVars, accounts, lastAuth, chosen, groq_client, prescriptions>>

\* GET /api/user/{user_id}/schedules
GetUserSchedules(sid, user_id) ==
    /\ lastApi' = ApiResponse("get_user_schedules", sid, user_id, 200, "none")
    /\ UNCHANGED schedules
    /\ ScheduleRouteFrame

\* POST /api/toggle-schedule
ToggleSchedule(sid, id, enabled) ==
    /\ IF id \notin DOMAIN schedules
       THEN /\ lastApi' = ApiResponse("toggle_schedule", sid, NoUser, 404,
                                      "Schedule not found")
            /\ UNCHANGED schedules
       ELSE /\ schedules' = [schedules EXCEPT ![id].enabled = enabled]
            /\ lastApi' = ApiResponse("toggle_schedule", sid,
                                      OwnerOf(schedules, id), 200, "none")
    /\ ScheduleRouteFrame

\* DELETE /api/schedule/{schedule_id}
DeleteSchedule(sid, id) ==
    /\ IF id \notin DOMAIN schedules
       THEN /\ lastApi' = ApiResponse("delete_schedule", sid, NoUser, 404,
                                      "Schedule not found")
            /\ UNCHANGED schedules
       ELSE /\ schedules' = [x \in DOMAIN schedules \ {id} |-> schedules[x]]
            /\ lastApi' = ApiResponse("delete_schedule", sid,
                                      OwnerOf(schedules, id), 200, "none")
    /\ ScheduleRouteFrame

\* The bodies of the update requests.
UpdateBodies ==
    { UpdateBody(Absent, Absent, Absent, Absent),
      UpdateBody(Given(" Ibuprofen "), Absent, Absent, Absent),
      UpdateBody(Absent, Absent, Absent, Given(<<"noon">>)),
      UpdateBody(Absent, Absent, Absent, Given(<<"noon", "night", "night">>)),
      UpdateBody(Absent, Given("5ml "), Absent, Given(<<"noon">>)),
      UpdateBody(Absent, Absent, Given("once a day"), Given(<<>>)) }

\* Lines 443-450: timings is given and holds no valid period.
RejectsTimings(data) ==
    data.timings # Absent /\ CleanTimings(data.timings[1]) = <<>>

\* Lines 432-451: update_fields, as the fields to set on the document.
UpdateFields(data) ==
    [f \in {g \in {"medicine_name", "dosage", "frequency", "timings"} :
               /\ data[g] # Absent
               /\ g = "timings" => ~RejectsTimings(data)} |->
        IF f = "timings" THEN CleanTimings(data.timings[1]) ELSE Strip(data[f][1])]

\* Lines 456-461: $set of update_fields and updated_at on the document.
SetFields(doc, fields, now) ==
    [f \in DOMAIN doc |->
        IF f \in DOMAIN fields THEN fields[f]
        ELSE IF f = "updated_at" THEN now ELSE doc[f]]

\* The handler with the update made before the body is judged.
UpdateOutcomeEager(sch, id, data, now) ==
    LET set == IF id \in DOMAIN sch
               THEN [sch EXCEPT ![id] = SetFields(@, UpdateFields(data), now)]
               ELSE sch
    IN IF RejectsTimings(data)
       THEN [sch |-> set, status |-> 400,
             detail |-> "At least one valid timing is required"]
       ELSE IF DOMAIN UpdateFields(data) = {}
       THEN [sch |-> sch, status |-> 400, detail |-> "No fields to update"]
       ELSE IF id \notin DOMAIN sch
       THEN [sch |-> sch, status |-> 404, detail |-> "Schedule not found"]
       ELSE [sch |-> set, status |-> 200, detail |-> "none"]

\* update_schedule: the collection after the request, and the response.
UpdateOutcome(sch, id, data, now) ==
    IF RejectsTimings(data)
    THEN [sch |-> sch, status |-> 400,
          detail |-> "At least one valid timing is required"]
    ELSE IF DOMAIN UpdateFields(data) = {}
    THEN [sch |-> sch, status |-> 400, detail |-> "No fields to update"]
    ELSE IF id \notin DOMAIN sch
    THEN [sch |-> sch, status |-> 404, detail |-> "Schedule not found"]
    ELSE [sch |-> [sch EXCEPT ![id] = SetFields(@, UpdateFields(data), now)],
          status |-> 200, detail |-> "none"]

\* PUT /api/schedule/{schedule_id}
UpdateSchedule(sid, id, data) ==
    LET r == UpdateOutcome(schedules, id, data, sclock)
    IN /\ schedules' = r.sch
       /\ lastApi' = [ApiResponse("update_schedule", sid,
                                  IF r.status = 200 THEN OwnerOf(schedules, id)
                                  ELSE NoUser,
                                  r.status, r.detail)
                        EXCEPT !.body = data]
       /\ ScheduleRouteFrame

\* --------------------------------------------------------- specifications

\* The process has started: no session, no run under way.
InitProcess ==
    /\ sclock = 0
    /\ sessions = <<>>
    /\ issued = 0
    /\ created = <<>>
    /\ loggedOut = {}
    /\ lastReq = NoRequest
    /\ threads = [t \in Threads |-> IdleThread]
    /\ accounts = <<>>
    /\ lastAuth = NoAuth
    /\ chosen = <<>>
    /\ prescriptions = <<>>
    /\ lastApi = NoApi

\* The documents of the scheduler's collections, with no reminder sent yet.
InitCollections ==
    /\ clock = 0
    /\ \E t \in TimingsChoices, m \in MorningChoices, n \in NightChoices :
         schedules = [s \in ScheduleIds |-> NewSchedule(t, CustomTimes(m, n))]
    /\ \E u \in UserChoices : users = [i \in UserIds |-> u]
    /\ resetDone = FALSE
    /\ ticked = FALSE
    /\ sentToday = ZeroCounts
    /\ failedToday = NoFlags
    /\ retried = NoFlags
    /\ lastAttempt = NoAttempt
    /\ skippedByOld = NoFlags
    /\ sentWhileOff = [s \in ScheduleIds |-> FALSE]

Init ==
    /\ InitProcess
    /\ InitCollections
    /\ groq_client = TRUE

Next ==
    \/ Tick
    \/ Reset
    \/ Advance

\* Ticks (the job of every minute, and manual triggers that run to their end)
\* and daily resets, each run as a whole, in any order within the minute.
Spec == Init /\ [][Next]_vars

\* The session store and the routes on it, the scheduler left aside.
SessInit ==
    /\ Init
    /\ \A s \in ScheduleIds :
         /\ schedules[s].timings = <<"morning">>
         /\ schedules[s].custom_times = <<>>
    /\ \A u \in UserIds : users[u].fcm_token /\ users[u].email

NextSess ==
    \/ \E u \in UserIds : CreateSessionCall(u)
    \/ \E req \in Requests : ProtectedRequest(req)
    \/ \E req \in Requests : Logout(req)
    \/ PassSecond
    \/ PassWeek

SessSpec == SessInit /\ [][NextSess]_vars

\* ------------------------------------------- overlapping runs and requests

\* A run of check_and_send_reminders starts on thread t: the reminder_check job
\* on the scheduler's pool (once a minute, one run at a time), or the thread
\* that trigger_reminders starts. It reads the time (line 85) and fetches the
\* enabled schedules (line 96).
Begin(t) ==
    /\ threads[t].pc = "idle"
    /\ t = "job" => ~ticked
    /\ threads' = [threads EXCEPT ![t] =
                      [pc |-> "run", now |-> clock, work |-> WorkList(schedules)]]
    /\ ticked' = (ticked \/ t = "job")
    /\ UNCHANGED <<clock, schedules, users, resetDone, history, sessVars, apiVars>>

\* The run on thread t handles the next (schedule, period) of its fetched list:
\* one pass through lines 105-194, on the copy it fetched.
Step(t) ==
    /\ threads[t].pc = "run"
    /\ threads[t].work # <<>>
    /\ \E out \in Outcomes :
         LET h == Head(threads[t].work)
             w == ProcessPair(World, h[3], h[1], h[2], threads[t].now, clock, out)
         IN /\ schedules' = w.sch
            /\ sentToday' = w.sent
            /\ failedToday' = w.failed
            /\ retried' = w.retried
            /\ lastAttempt' = w.last
            /\ skippedByOld' = w.old
            /\ sentWhileOff' = w.off
    /\ threads' = [threads EXCEPT ![t].work = Tail(@)]
    /\ UNCHANGED <<clock, users, resetDone, ticked, sessVars, apiVars>>

\* The run on thread t has handled its whole list and returns.
Finish(t) ==
    /\ threads[t].pc = "run"
    /\ threads[t].work = <<>>
    /\ threads' = [threads EXCEPT ![t] = IdleThread]
    /\ UNCHANGED <<clock, schedules, users, resetDone, ticked, history, sessVars, apiVars>>

\* Time passes once the runs under way have returned.
AdvanceWhenIdle ==
    /\ \A t \in Threads : threads[t].pc = "idle"
    /\ NextEventful(clock) <= ConcDays * MinutesPerDay
    /\ Advance

\* The interleavings are explored for the schedules with one timing period.
ConcInit ==
    /\ Init
    /\ \A s \in ScheduleIds :
         /\ Len(schedules[s].timings) = 1
         /\ "night" \notin DOMAIN schedules[s].custom_times

NextConc ==
    \/ \E t \in Threads : Begin(t)
    \/ \E t \in Threads : Step(t)
    \/ \E t \in Threads : Finish(t)
    \/ \E s \in ScheduleIds, b \in BOOLEAN : Toggle(s, b)
    \/ Reset
    \/ AdvanceWhenIdle

\* The runs of check_and_send_reminders taken one (schedule, period) at a time,
\* interleaved with each other, with toggle requests and with the reset.
ConcSpec == ConcInit /\ [][NextConc]_vars

\* --------------------------------------------------- signup and login

AuthInit ==
    /\ SessInit

NextAuth ==
    \/ \E e \in Emails, pw \in Passwords : Signup(e, pw)
    \/ \E e \in Emails, pw \in Passwords : Login(e, pw)
    \/ PassSecond

\* Signups and logins in any order, each handler run as a whole.
AuthSpec == AuthInit /\ [][NextAuth]_vars

\* ------------------------------------------------------ the /api routes

\* The schedules and prescriptions collections are empty, both users exist;
\* the LLM client is configured or not.
ApiInit ==
    /\ InitProcess
    /\ clock = 0
    /\ schedules = <<>>
    /\ users = [i \in UserIds |-> [exists |-> TRUE, email |-> TRUE, fcm_token |-> TRUE]]
    /\ resetDone = FALSE
    /\ ticked = FALSE
    /\ sentToday = ZeroCounts
    /\ failedToday = NoFlags
    /\ retried = NoFlags
    /\ lastAttempt = NoAttempt
    /\ skippedByOld = NoFlags
    /\ sentWhileOff = [s \in ScheduleIds |-> FALSE]
    /\ groq_client \in BOOLEAN

\* The ids a request may name: those of the stored schedules, and one that no
\* schedule has.
NamedScheduleIds == DOMAIN schedules \cup {<<0, 0>>}

\* The uploads: for a user that does not exist, with an image OCR.space
\* fails on, and with every reply and answer of the LLM.
Uploads ==
    { [user_id |-> "u9", ocr_ok |-> TRUE, reply |-> <<>>],
      [user_id |-> "u1", ocr_ok |-> FALSE, reply |-> <<>>] }
    \cup { [user_id |-> "u1", ocr_ok |-> TRUE, reply |-> r] : r \in MedicineLists }

\* The answers that make a difference to a reply: all of them when one of its
\* medicines misses a field, one otherwise.
AnswersFor(reply) ==
    IF \E i \in 1..Len(reply) : DetectMissingInformation(reply[i]) # {}
    THEN EnrichmentAnswers
    ELSE {a \in EnrichmentAnswers : a.failed}

NextApi ==
    \/ \E up \in Uploads : \E answer \in AnswersFor(up.reply) :
         UploadPrescription(NoSessionId, up.user_id, up.ocr_ok, up.reply, answer)
    \/ \E user_id \in {"u1"} : GetUserSchedules(NoSessionId, user_id)
    \/ \E id \in NamedScheduleIds, b \in BOOLEAN : ToggleSchedule(NoSessionId, id, b)
    \/ \E id \in NamedScheduleIds : DeleteSchedule(NoSessionId, id)
    \/ \E id \in NamedScheduleIds, data \in UpdateBodies :
         UpdateSchedule(NoSessionId, id, data)

\* The /api routes in any order, each handler run as a whole.
ApiSpec == ApiInit /\ [][NextApi]_vars

\* ------------------------------------- the /api routes and the sessions

\* The LLM client is configured.
OwnerInit ==
    /\ ApiInit
    /\ groq_client

\* One reply of the LLM, with two medicines to schedule.
OwnerReply ==
    << Medicine("Paracetamol", "500mg", JsonList(<<"morning">>)),
       Medicine("Cetirizine", "10mg", JsonList(<<"night">>)) >>

NextOwner ==
    \/ \E u \in UserIds : CreateSessionCall(u)
    \/ \E sid \in CarriedIds, user_id \in UserIds, answer \in AnswersFor(OwnerReply) :
         UploadPrescription(sid, user_id, TRUE, OwnerReply, answer)
    \/ \E sid \in CarriedIds, user_id \in UserIds : GetUserSchedules(sid, user_id)
    \/ \E sid \in CarriedIds, id \in NamedScheduleIds :
         ToggleSchedule(sid, id, FALSE)
    \/ \E sid \in CarriedIds, id \in NamedScheduleIds : DeleteSchedule(sid, id)
    \/ \E sid \in CarriedIds, id \in NamedScheduleIds :
         UpdateSchedule(sid, id, UpdateBody(Absent, Absent, Absent, Given(<<"night">>)))

\* The /api routes called by requests that carry no session id, a forged one,
\* or the id of a session of either user.
OwnerSpec == OwnerInit /\ [][NextOwner]_vars

\* ------------------------------------------------- the scheduler's claims

\* The periods of a schedule, as (schedule, period) pairs.
PeriodsOf(s) == {schedules[s].timings[i] : i \in 1..Len(schedules[s].timings)}

NoRepeatedTiming(s) ==
    \A i, j \in 1..Len(schedules[s].timings) :
        schedules[s].timings[i] = schedules[s].timings[j] => i = j

\* A text of the form HH:MM with an hour and a minute of the clock.
ValidHHMM(str) ==
    /\ Len(str) = 2
    /\ str[1].int /\ str[1].val \in 0..23
    /\ str[2].int /\ str[2].val \in 0..59

\* The minute of the local day a period is scheduled at, as the claims read it:
\* the custom_times entry when it is a valid HH:MM, the period's default time
\* when there is no entry or the entry is malformed.
ClaimedMinute(s, p) ==
    LET ct == schedules[s].custom_times
    IN IF p \in DOMAIN ct /\ ValidHHMM(ct[p])
       THEN ct[p][1].val * 60 + ct[p][2].val
       ELSE CASE p = "morning" -> 8 * 60
              [] p = "afternoon" -> 13 * 60
              [] p = "evening" -> 18 * 60
              [] p = "night" -> 21 * 60

\* t, a UTC minute, is within two minutes of the scheduled minute, local time.
InClaimedWindow(s, p, t) ==
    /\ LocalMinuteOfDay(t) >= ClaimedMinute(s, p) - 2
    /\ LocalMinuteOfDay(t) <= ClaimedMinute(s, p) + 2

\* The last minute (UTC) of the window of the local day of the clock.
WindowEnd(s, p) ==
    LET last == IF ClaimedMinute(s, p) + 2 > MinutesPerDay - 1
                THEN MinutesPerDay - 1 ELSE ClaimedMinute(s, p) + 2
    IN LocalDay(clock) * MinutesPerDay + last - USER_TIMEZONE

\* Every tick of the window of this local day has run.
WindowOver(s, p) ==
    /\ WindowEnd(s, p) >= 0
    /\ clock > WindowEnd(s, p) \/ (clock = WindowEnd(s, p) /\ ticked)

\* C1: for every schedule and every timing period of it, at most one reminder is
\* delivered and recorded per user-local (IST) calendar day, whatever the
\* scheduled time of the period. (Stated for the schedules whose timings list
\* names no period twice.)
C1_AtMostOncePerLocalDay ==
    \A s \in DOMAIN schedules : \A p \in PeriodsOf(s) :
        NoRepeatedTiming(s) => sentToday[s][p] <= 1

\* C2: for an enabled schedule with a period whose scheduled time is a valid
\* HH:MM (a default or a custom time), whose user exists and has an email, when
\* the tick runs every minute and no delivery attempt of the day failed on every
\* channel, a reminder has been sent and recorded by the end of the window of
\* every local day.
C2_SentInWindowEveryDay ==
    \A s \in DOMAIN schedules : \A p \in PeriodsOf(s) :
        ( /\ schedules[s].enabled
          /\ ValidHHMM(GetScheduledTime(schedules[s], p))
          /\ users[schedules[s].user_id].exists
          /\ users[schedules[s].user_id].email
          /\ ~failedToday[s][p]
          /\ WindowOver(s, p) )
        => /\ sentToday[s][p] >= 1
           /\ schedules[s].last_reminder_sent # NoTime

\* C2's case: on the second local day, the window of a period is over and its
\* reminder was sent and recorded in a tick of that window.
C2_Witness ==
    \E s \in DOMAIN schedules : \E p \in PeriodsOf(s) :
        /\ LocalDay(clock) >= 1
        /\ WindowOver(s, p)
        /\ ~failedToday[s][p]
        /\ sentToday[s][p] >= 1
        /\ schedules[s].reminders_sent_today[p] # NoTime
        /\ InClaimedWindow(s, p, schedules[s].reminders_sent_today[p])
        /\ LocalDay(schedules[s].reminders_sent_today[p]) = LocalDay(clock)

\* C3: an email or push is sent for a (schedule, timing period) only in a tick
\* whose user-local time is within 2 minutes of the period's scheduled time.
C3_SendsOnlyInsideWindow ==
    lastAttempt.at # NoTime =>
        InClaimedWindow(lastAttempt.s, lastAttempt.p, lastAttempt.at)

\* C3's case: a reminder was delivered for a period with a custom time.
C3_Witness ==
    /\ lastAttempt.at # NoTime
    /\ lastAttempt.ok
    /\ lastAttempt.p \in DOMAIN schedules[lastAttempt.s].custom_times
    /\ ValidHHMM(schedules[lastAttempt.s].custom_times[lastAttempt.p])

\* C4: once a toggle request with enabled=false has returned, no email or push
\* is sent for that schedule until it is enabled again, under every
\* interleaving of the request with the runs of the tick.
C4_NoSendWhileDisabled ==
    \A s \in ScheduleIds : ~sentWhileOff[s]

\* C5: when a manual trigger overlaps a scheduled tick, a due reminder for a
\* schedule and timing period is still sent only once. (Stated for the
\* schedules with the default times and no period named twice, which are sent
\* once a day by ticks that do not overlap.)
C5_OverlapStillSendsOnce ==
    \A s \in DOMAIN schedules : \A p \in PeriodsOf(s) :
        (NoRepeatedTiming(s) /\ DOMAIN schedules[s].custom_times = {})
            => sentToday[s][p] <= 1

\* C6, as claimed: after a tick has attempted a due reminder and delivery failed
\* on every channel, no later tick re-attempts that reminder on that day.
\* (Stated for the schedules whose timings list names no period twice, where a
\* second attempt is one of a later tick.)
C6_NoReattemptAfterFailure ==
    \A s \in DOMAIN schedules : \A p \in PeriodsOf(s) :
        NoRepeatedTiming(s) => ~retried[s][p]

\* C6, amended: a failed attempt records nothing, so the reminder stays due for
\* every later tick of that day that is still inside the window, until one
\* delivery succeeds; a re-attempt is made only inside the window.
C6_ReattemptWhileInWindow ==
    \A s \in DOMAIN schedules : \A p \in PeriodsOf(s) :
        /\ ( /\ failedToday[s][p]
             /\ sentToday[s][p] = 0
             /\ InClaimedWindow(s, p, clock) )
           => ~AlreadySent(schedules[s], p, clock)
        /\ ( /\ retried[s][p]
             /\ lastAttempt.s = s
             /\ lastAttempt.p = p )
           => InClaimedWindow(s, p, lastAttempt.at)

\* C6's case: a delivery failed on every channel, a later tick inside the
\* window tried again and that reminder was delivered.
C6_Witness ==
    \E s \in DOMAIN schedules : \E p \in PeriodsOf(s) :
        /\ NoRepeatedTiming(s)
        /\ retried[s][p]
        /\ sentToday[s][p] = 1
        /\ lastAttempt.s = s /\ lastAttempt.p = p /\ lastAttempt.ok

\* C7: on no tick of a later local day whose time is inside the window is a
\* period skipped because of a record of an earlier local day.
C7_NoSuppressionByEarlierDay ==
    \A s \in DOMAIN schedules : \A p \in PeriodsOf(s) : ~skippedByOld[s][p]

\* ---------------------------------------------- the session store's claims

\* The session was made by create_session and its seven days are not over.
WithinSevenDays(sid) ==
    /\ sid \in DOMAIN created
    /\ sclock <= created[sid].at + 7 * 24 * 60 * 60

\* C8: a protected route yields a user id only when the request carries a
\* session id that is in the session store and unexpired, and the id yielded is
\* the user that session was created for; with no session id it fails with 401
\* 'Not logged in', and with an unknown, deleted or expired session id with 401
\* 'Session expired'.
C8_RequireUserYieldsSessionUser ==
    lastReq.op = "require_user" =>
        /\ lastReq.status = 200 =>
             /\ lastReq.carries
             /\ lastReq.sid \in DOMAIN sessions
             /\ sessions[lastReq.sid].expiry >= sclock
             /\ WithinSevenDays(lastReq.sid)
             /\ lastReq.sid \notin loggedOut
             /\ lastReq.user = created[lastReq.sid].user_id
        /\ lastReq.status # 200 => lastReq.user = NoUser
        /\ ~lastReq.carries =>
             lastReq.status = 401 /\ lastReq.detail = "Not logged in"
        /\ ( /\ lastReq.carries
             /\ \/ lastReq.sid \notin DOMAIN created
                \/ lastReq.sid \in loggedOut
                \/ ~WithinSevenDays(lastReq.sid) )
           => lastReq.status = 401 /\ lastReq.detail = "Session expired"

\* C8's case: two users have a session each, and a request with the session id
\* of one of them has been let through as that user.
C8_Witness ==
    /\ lastReq.op = "require_user"
    /\ lastReq.status = 200
    /\ lastReq.user = created[lastReq.sid].user_id
    /\ \E other \in DOMAIN sessions :
         sessions[other].user_id # sessions[lastReq.sid].user_id

\* C9: a session id returned by create_session(u) resolves to u at every time up
\* to 7 days after its creation and to None at every later time, unless
\* delete_session removed it first; a lookup never extends its expiry.
C9_SessionLivesSevenDays ==
    /\ \A sid \in DOMAIN sessions :
         /\ sessions[sid].user_id = created[sid].user_id
         /\ sessions[sid].expiry = created[sid].at + 7 * 24 * 60 * 60
    /\ (lastReq.op = "require_user" /\ lastReq.sid \in DOMAIN created) =>
         IF WithinSevenDays(lastReq.sid) /\ lastReq.sid \notin loggedOut
         THEN lastReq.user = created[lastReq.sid].user_id
         ELSE lastReq.user = NoUser

\* C9's case: a session was looked up exactly 7 days after its creation, and
\* resolved.
C9_Witness ==
    /\ lastReq.op = "require_user"
    /\ lastReq.sid \in DOMAIN created
    /\ sclock = created[lastReq.sid].at + 7 * 24 * 60 * 60
    /\ lastReq.user = created[lastReq.sid].user_id

\* C10: after logout has returned for a request carrying session id s,
\* get_user_from_session(s) is None in every later state; logout returns
\* success also when s is absent, unknown or already deleted.
C10_LogoutEndsSession ==
    /\ \A sid \in loggedOut :
         GetUserFromSession(sessions, sid, sclock).user = NoUser
    /\ lastReq.op = "logout" => lastReq.status = 200

\* C10's case: a logout has named a session whose seven days are not over, and
\* another session is still in the store.
C10_Witness ==
    /\ lastReq.op = "logout"
    /\ lastReq.sid \in loggedOut
    /\ WithinSevenDays(lastReq.sid)
    /\ \E other \in DOMAIN sessions : other # lastReq.sid

\* ------------------------------------------------ signup's and login's claims

\* The signup answered is for an email that had a user when it came in.
SignupForExistingEmail(auth) == auth.op = "signup" /\ auth.existed

LoginWithWrongCredentials(auth) == auth.op = "login" /\ auth.wrong

\* C12: a login with an unknown email or a wrong password returns 401 'Invalid
\* credentials' and changes nothing: no session is created and the user's
\* last_login is not updated.
C12_FailedLoginChangesNothing ==
    [][ LoginWithWrongCredentials(lastAuth') =>
          /\ lastAuth'.status = 401
          /\ lastAuth'.detail = "Invalid credentials"
          /\ UNCHANGED <<accounts, sessions, issued>> ]_vars

\* ------------------------------------------------- the /api routes' claims

\* C13: after any sequence of upload-prescription, update-schedule,
\* toggle-schedule and delete-schedule requests, every stored schedule's timings
\* is a non-empty list that holds only 'morning', 'afternoon', 'evening' or
\* 'night'.
C13_StoredTimingsValid ==
    \A id \in DOMAIN schedules :
        /\ schedules[id].timings # <<>>
        /\ \A i \in 1..Len(schedules[id].timings) :
             schedules[id].timings[i] \in {"morning", "afternoon", "evening", "night"}

\* C13's case: two schedules are stored, and an update whose timings named an
\* invalid period next to valid ones has been accepted.
C13_Witness ==
    /\ Cardinality(DOMAIN schedules) = 2
    /\ lastApi.op = "update_schedule"
    /\ lastApi.status = 200
    /\ lastApi.body.timings = <<(<<"noon", "night", "night">>)>>
    /\ \E id \in DOMAIN schedules : schedules[id].timings = <<"night", "night">>

\* The update answered had a body with timings that hold no valid period.
NoValidPeriodGiven(api) ==
    /\ api.op = "update_schedule"
    /\ api.body.timings # <<>>
    /\ \A i \in 1..Len(api.body.timings[1]) :
         api.body.timings[1][i] \notin {"morning", "afternoon", "evening", "night"}

\* C14: an update-schedule request that is rejected (400 because no field was
\* given or because timings holds no valid period, 404 because the schedule does
\* not exist) leaves every stored schedule unchanged, also when the request
\* carried other valid fields next to the invalid timings.
C14_RejectedUpdateChangesNothing ==
    [][ /\ (lastApi'.op = "update_schedule" /\ lastApi'.status \in {400, 404})
             => schedules' = schedules
        /\ NoValidPeriodGiven(lastApi')
             => lastApi'.status = 400 /\ schedules' = schedules ]_vars

\* C14's case: two schedules are stored, and an update with a dosage next to
\* timings that hold no valid period has been rejected.
C14_Witness ==
    /\ Cardinality(DOMAIN schedules) = 2
    /\ NoValidPeriodGiven(lastApi)
    /\ lastApi.body.dosage # <<>>
    /\ lastApi.status = 400

\* C15: enrichment is optional: when the LLM client is not configured, an
\* upload for an existing user whose image OCR reads still runs to a normal
\* outcome, the success response or the 400 'No medicines detected' response
\* with the prescription stored, and does not fail with a 500.
C15_UploadRunsWithoutLlm ==
    (lastApi.op = "upload_prescription" /\ ~groq_client) =>
        \/ lastApi.status = 404 /\ lastApi.detail = "User not found"
        \/ lastApi.status = 500 /\ lastApi.detail = "OCR failed"
        \/ /\ lastApi.status = 200
           /\ lastApi.prescription_id \in 1..Len(prescriptions)
        \/ /\ lastApi.status = 400
           /\ lastApi.detail = "No medicines detected"
           /\ lastApi.prescription_id \in 1..Len(prescriptions)

\* ------------------------------------------ the tick's writes (scheduler)

\* In this step a delivery for period p of schedule s succeeded on a channel.
DeliveredInStep(s, p) == sentToday'[s][p] > sentToday[s][p]

\* C16: a tick writes the sent-tracking fields of a schedule
\* (reminders_sent_today.<period>, last_reminder_sent, last_reminder_timing)
\* exactly when the email or the push for that reminder succeeded; when both
\* fail, the schedule document is left unchanged.
C16_TickWritesExactlyOnSuccess ==
    [][ (clock' = clock /\ resetDone' = resetDone) =>
          \A s \in ScheduleIds :
             /\ \A p \in Periods :
                  IF DeliveredInStep(s, p)
                  THEN /\ schedules'[s].reminders_sent_today[p] = clock
                       /\ schedules'[s].last_reminder_sent = clock
                       /\ DeliveredInStep(s, schedules'[s].last_reminder_timing)
                  ELSE schedules'[s].reminders_sent_today[p]
                          = schedules[s].reminders_sent_today[p]
             /\ (\A p \in Periods : ~DeliveredInStep(s, p))
                  => schedules'[s] = schedules[s] ]_vars

\* C16's case: a reminder of one period was sent and recorded, and the tick of
\* this minute has attempted another period and failed on both channels: the
\* document still holds the earlier record only.
C16_Witness ==
    /\ ticked
    /\ lastAttempt.at = clock
    /\ ~lastAttempt.ok
    /\ \E s \in ScheduleIds :
         /\ lastAttempt.s = s
         /\ schedules[s].last_reminder_sent # 0 - 1
         /\ schedules[s].last_reminder_sent < clock
         /\ schedules[s].last_reminder_timing # lastAttempt.p
         /\ schedules[s].reminders_sent_today[lastAttempt.p] = 0 - 1

\* ------------------------------------------------- the expiry sweep's claim

\* The step is a call of create_session or of get_user_from_session (through
\* require_user, for a request that carries a session id).
SessionCallInStep ==
    \/ issued' # issued
    \/ lastReq'.op = "require_user" /\ lastReq'.carries

\* C17: after every create_session or get_user_from_session call the session
\* store holds no entry whose expiry is earlier than the time of that call: the
\* sweep removes all expired sessions, not only the one looked up.
C17_NoExpiredEntryAfterCall ==
    [][ SessionCallInStep =>
          \A sid \in DOMAIN sessions' : ~(sessions'[sid].expiry < sclock') ]_vars

\* C17's case: a session other than the one looked up had expired and is gone
\* from the store, though no logout named it.
C17_Witness ==
    /\ lastReq.op = "require_user"
    /\ lastReq.carries
    /\ \E sid \in DOMAIN created :
         /\ sid # lastReq.sid
         /\ sid \notin loggedOut
         /\ created[sid].at + 7 * 24 * 60 * 60 < sclock
         /\ sid \notin DOMAIN sessions

\* ------------------------------------------- the /api routes' owner claim

\* C18: reading or changing a user's schedules and prescriptions through the
\* /api routes (upload, list, toggle, update, delete) succeeds only for a
\* request authenticated with a live session that belongs to that user.
C18_ApiOnlyForSessionOwner ==
    (lastApi.op # "none" /\ lastApi.status = 200) =>
        /\ lastApi.sid \in DOMAIN sessions
        /\ ~(sessions[lastApi.sid].expiry < sclock)
        /\ sessions[lastApi.sid].user_id = lastApi.owner

====
